---- MODULE Spec2Model ----
(***************************************************************************)
(* GoHue light.go: the local mirror (Light) of one light of a Philips Hue  *)
(* bridge, the PUT-then-GET round trip of Light.SetState, the operations   *)
(* built on it, and the bounded discovery scan GetAllLights /              *)
(* GetLightByIndex / GetLightByName.                                       *)
(*                                                                         *)
(* Strings whose contents are inspected by the code (light names, the      *)
(* "not available" marker) are sequences of one-character strings.  The    *)
(* two float32 of an XY pair are integers, the value times 10000.          *)
(***************************************************************************)
EXTENDS Integers, Sequences, FiniteSets, TLC

(***************************************************************************)
(* Bounds of the model.                                                    *)
(***************************************************************************)
\* lights the bridge can hold: one more than the scan can reach
MaxLight == 101
\* longest Blink duration, in seconds
MaxSeconds == 1

(***************************************************************************)
(* Program constants.                                                      *)
(***************************************************************************)
\* for index := 1; index < 101; index++
ScanLimit == 101
\* blinkMax := LightState{On: true, Bri: uint8(200)}
BlinkMaxBri == 200
\* blinkMin := LightState{On: true, Bri: uint8(50)}
BlinkMinBri == 50
\* width of LightState.Bri, a uint8
Uint8Mod == 256

NilBridge == "nil"
TheBridge == "bridge"

NoErr == "nil"
TransportErr == "transport failure"
IndexErr == "Index Error"
NotFoundErr == "Light not found."

\* the pointer *[2]float32 of LightState.XY when no colour is given
NilXY == <<>>
BLUE == <<1530, 480>>

Lamp == <<"L", "a", "m", "p">>
Desk == <<"D", "e", "s", "k">>
desk == <<"d", "e", "s", "k">>
Des == <<"D", "e", "s">>
Sofa == <<"S", "o", "f", "a">>
\* the substring GetLightByIndex looks for in the raw body
Marker == <<"n", "o", "t", " ", "a", "v", "a", "i", "l", "a", "b", "l", "e">>

(***************************************************************************)
(* strings.Contains over character sequences.                              *)
(***************************************************************************)
Contains(s, sub) ==
    \E k \in 0..(Len(s) - Len(sub)) : SubSeq(s, k + 1, k + Len(sub)) = sub

(***************************************************************************)
(* The Light struct and its zero value Light{}.                            *)
(***************************************************************************)
ZeroLight ==
    [On |-> FALSE, Bri |-> 0, Effect |-> "", XY |-> <<0, 0>>, Name |-> <<>>,
     Index |-> 0, Bridge |-> NilBridge]

\* the attributes of a Light: everything but Index and Bridge
Attrs(l) ==
    [On |-> l.On, Bri |-> l.Bri, Effect |-> l.Effect, XY |-> l.XY, Name |-> l.Name]

\* the caller holds no mirror yet
NoLight == [Index |-> -1]

(***************************************************************************)
(* The LightState struct (the patch) and its JSON encoding: On is always   *)
(* sent, the omitempty fields only when they are not the zero value.       *)
(***************************************************************************)
LightState(on, bri, xy, effect) ==
    [On |-> on, Bri |-> bri % Uint8Mod, XY |-> xy, Effect |-> effect]

MarshalLightState(p) ==
    [on |-> <<p.On>>,
     bri |-> IF p.Bri # 0 THEN <<p.Bri>> ELSE <<>>,
     xy |-> IF p.XY # NilXY THEN <<p.XY>> ELSE <<>>,
     effect |-> IF p.Effect # "" THEN <<p.Effect>> ELSE <<>>]

(***************************************************************************)
(* The bridge: the lights it holds, by index, each with the attribute set  *)
(* a GET of the light's resource returns.  What the bridge answers is not  *)
(* part of light.go: Get, Put and Delete are the three primitives of the   *)
(* Bridge collaborator, each returning a body and an error.                *)
(***************************************************************************)
VARIABLES
    lights,     \* the bridge's state: index -> attributes, for the lights it holds
    light,      \* the mirror the callers hold (a Light), or NoLight
    origin,     \* Index and Bridge of the mirror when it was fetched
    proc,       \* per caller: the position in its call and the call's record
    active,     \* the callers that run
    atDelete    \* the mirror when its light was deleted from the bridge, or NoLight

vars == <<lights, light, origin, proc, active, atDelete>>

Callers == {"c1", "c2"}

Device(on, bri, effect, xy, name) ==
    [state |-> [on |-> on, bri |-> bri, effect |-> effect, xy |-> xy], name |-> name]

\* the body of an error answer of the bridge for a resource it does not hold
UnavailableBody ==
    [error |-> [description |-> <<"r", "e", "s", "o", "u", "r", "c", "e", " ">> \o Marker]]

\* the body of another error answer (an unauthorized user, say)
OtherBody ==
    [error |-> [description |-> <<"u", "n", "a", "u", "t", "h", "o", "r", "i", "z", "e", "d">>]]

\* what the bridge answers to GET /lights/<index> when the request gets through
LightBody(ls, index) ==
    IF index \in DOMAIN ls THEN ls[index] ELSE UnavailableBody

\* Bridge.Get: the request fails, or the bridge answers with the light, with
\* the unavailable error, or with another error body
BridgeGet(ls, index) ==
    { [err |-> TransportErr, body |-> <<>>],
      [err |-> NoErr, body |-> LightBody(ls, index)],
      [err |-> NoErr, body |-> OtherBody] }

\* the bridge applying the fields of a state patch to a light it holds
ApplyState(dev, json) ==
    [dev EXCEPT !.state =
        [on |-> json.on[1],
         bri |-> IF json.bri # <<>> THEN json.bri[1] ELSE dev.state.bri,
         effect |-> IF json.effect # <<>> THEN json.effect[1] ELSE dev.state.effect,
         xy |-> IF json.xy # <<>> THEN json.xy[1] ELSE dev.state.xy]]

\* Bridge.Put on the state resource: the request fails (nothing changes), or
\* it gets through and the bridge applies the patch to the light, if it
\* holds it, or leaves the light as it is
BridgePutState(ls, index, json) ==
    { [err |-> TransportErr, lights |-> ls], [err |-> NoErr, lights |-> ls] }
    \cup (IF index \in DOMAIN ls
          THEN {[err |-> NoErr, lights |-> [ls EXCEPT ![index] = ApplyState(ls[index], json)]]}
          ELSE {})

\* Bridge.Put on the base resource with {name: ...}
BridgePutName(ls, index, name) ==
    { [err |-> TransportErr, lights |-> ls] }
    \cup (IF index \in DOMAIN ls
          THEN {[err |-> NoErr, lights |-> [ls EXCEPT ![index].name = name]]}
          ELSE {[err |-> NoErr, lights |-> ls]})

\* Bridge.Delete on the base resource
BridgeDelete(ls, index) ==
    { [err |-> TransportErr, lights |-> ls],
      [err |-> NoErr, lights |-> [j \in DOMAIN ls \ {index} |-> ls[j]]] }

(***************************************************************************)
(* A request as the bridge sees it, with the error Bridge.Get, Bridge.Put  *)
(* or Bridge.Delete returned for it.                                       *)
(***************************************************************************)
Request(method, resource, bridge, index, body, err) ==
    [method |-> method, resource |-> resource, bridge |-> bridge, index |-> index,
     body |-> body, err |-> err]

(***************************************************************************)
(* strings.Contains(string(body), "not available"): the marker in one of   *)
(* the strings of the raw body.                                            *)
(***************************************************************************)
BodyStrings(body) ==
    (IF "name" \in DOMAIN body THEN {body.name} ELSE {})
    \cup (IF "error" \in DOMAIN body THEN {body.error.description} ELSE {})

HasMarker(body) == \E s \in BodyStrings(body) : Contains(s, Marker)

(***************************************************************************)
(* json.Unmarshal(body, &light) into a zero Light: the fields of the body  *)
(* that the struct's tags name; a body of another shape leaves the zero    *)
(* value (the error is only traced).                                       *)
(***************************************************************************)
\* (a variant whose tag for State.On matches no field of the body)
Unmarshal_DropsOn(body) ==
    [ZeroLight EXCEPT
        !.Bri = IF "state" \in DOMAIN body THEN body.state.bri ELSE @,
        !.Effect = IF "state" \in DOMAIN body THEN body.state.effect ELSE @,
        !.XY = IF "state" \in DOMAIN body THEN body.state.xy ELSE @,
        !.Name = IF "name" \in DOMAIN body THEN body.name ELSE @]

Unmarshal(body) ==
    [ZeroLight EXCEPT
        !.On = IF "state" \in DOMAIN body THEN body.state.on ELSE @,
        !.Bri = IF "state" \in DOMAIN body THEN body.state.bri ELSE @,
        !.Effect = IF "state" \in DOMAIN body THEN body.state.effect ELSE @,
        !.XY = IF "state" \in DOMAIN body THEN body.state.xy ELSE @,
        !.Name = IF "name" \in DOMAIN body THEN body.name ELSE @]

(***************************************************************************)
(* GetLightByIndex, given the answer resp of bridge.Get(uri): the Light    *)
(* and the error it returns.                                               *)
(***************************************************************************)
\* (a variant without the check for the marker)
GetLightByIndex_NoMarker(bridge, index, resp) ==
    IF resp.err # NoErr
    THEN [light |-> ZeroLight, err |-> resp.err]
    ELSE [light |-> [Unmarshal(resp.body) EXCEPT !.Index = index, !.Bridge = bridge],
          err |-> NoErr]

\* (a variant that does not set light.Bridge)
GetLightByIndex_NoBridge(bridge, index, resp) ==
    IF resp.err # NoErr
    THEN [light |-> ZeroLight, err |-> resp.err]
    ELSE IF HasMarker(resp.body)
    THEN [light |-> ZeroLight, err |-> IndexErr]
    ELSE [light |-> [Unmarshal(resp.body) EXCEPT !.Index = index], err |-> NoErr]

\* (a variant that returns the error of json.Unmarshal)
GetLightByIndex_DecodeError(bridge, index, resp) ==
    IF resp.err # NoErr
    THEN [light |-> ZeroLight, err |-> resp.err]
    ELSE IF HasMarker(resp.body)
    THEN [light |-> ZeroLight, err |-> IndexErr]
    ELSE IF "state" \notin DOMAIN resp.body
    THEN [light |-> ZeroLight, err |-> "decode error"]
    ELSE [light |-> [Unmarshal(resp.body) EXCEPT !.Index = index, !.Bridge = bridge],
          err |-> NoErr]

GetLightByIndex(bridge, index, resp) ==
    IF resp.err # NoErr
    THEN [light |-> ZeroLight, err |-> resp.err]
    ELSE IF HasMarker(resp.body)
    THEN [light |-> ZeroLight, err |-> IndexErr]
    ELSE [light |-> [Unmarshal(resp.body) EXCEPT !.Index = index, !.Bridge = bridge],
          err |-> NoErr]

(***************************************************************************)
(* The callers.  A call is a sequence of requests; a step of a caller is   *)
(* one request together with the code that runs up to the next request or  *)
(* to the return.  pc: "idle" (no call running; the record is the one of   *)
(* the last call), "put" (in SetState, before Bridge.Put), "get" (in       *)
(* SetState, before GetLightByIndex), "panic" (nil pointer dereference).   *)
(* The record of a call: the operation and its argument, the error it      *)
(* returned, the requests it issued, the answer to its last GET, what a    *)
(* discovery function returned, Index, Bridge and power flag of the mirror *)
(* when the call was entered (pre), whether its last PUT changed the       *)
(* bridge's state, the local variables of Blink, and, for a Toggle that    *)
(* follows a Toggle of the same caller, the power flag that the earlier    *)
(* one sent (previous).                                                    *)
(***************************************************************************)
NoPatch == LightState(FALSE, 0, NilXY, "")

IdleProc ==
    [pc |-> "idle", op |-> "", arg |-> <<>>, patch |-> NoPatch, stage |-> "",
     ret |-> NoErr, reqs |-> <<>>, resp |-> <<>>, result |-> <<>>,
     pre |-> [Index |-> 0, Bridge |-> NilBridge, On |-> FALSE], wrote |-> FALSE,
     originalPosition |-> FALSE, originalBrightness |-> 0, seconds |-> 0, i |-> 0,
     previous |-> <<>>]

\* entering a call on the mirror: the record of the call
Enter(op, arg) ==
    [IdleProc EXCEPT !.op = op, !.arg = arg,
                     !.pre = [Index |-> light.Index, Bridge |-> light.Bridge,
                              On |-> light.On]]

\* entering SetState(newState) from the operation op
EnterSetState(op, arg, newState) ==
    [Enter(op, arg) EXCEPT !.pc = "put", !.patch = newState, !.stage = "top"]

\* return err
Return(p, err) == [p EXCEPT !.pc = "idle", !.ret = err]

(***************************************************************************)
(* Light.Blink: what follows the return of one of its SetState calls, with *)
(* l the mirror at that moment.  send(q) is the next SetState(q).          *)
(***************************************************************************)
Send(p, stage, q) == [p EXCEPT !.pc = "put", !.stage = stage, !.patch = q]

blinkMax == LightState(TRUE, BlinkMaxBri, NilXY, "")
blinkMin == LightState(TRUE, BlinkMinBri, NilXY, "")

\* the loop test and body for the value i, and what follows the loop
BlinkLoop(p, i, l) ==
    IF i <= p.seconds * 2
    THEN Send([p EXCEPT !.i = i], "loop", IF i % 2 = 0 THEN blinkMax ELSE blinkMin)
    ELSE IF l.Bri # p.originalBrightness \/ l.On # p.originalPosition
    THEN Send([p EXCEPT !.i = i], "restore",
              LightState(p.originalPosition, p.originalBrightness, NilXY, ""))
    ELSE Return([p EXCEPT !.i = i], NoErr)

(***************************************************************************)
(* What follows the return of SetState with err in the operation that      *)
(* called it.                                                              *)
(***************************************************************************)
\* (a variant in which Blink returns the error of the SetState that restores)
AfterSetState_ReportsRestore(p, err, l) ==
    CASE p.stage = "top" -> Return(p, err)
      [] p.stage = "first" -> IF err # NoErr THEN Return(p, err) ELSE BlinkLoop(p, 0, l)
      [] p.stage = "loop" -> IF err # NoErr THEN Return(p, err) ELSE BlinkLoop(p, p.i + 1, l)
      [] p.stage = "restore" -> Return(p, err)

AfterSetState(p, err, l) ==
    CASE p.stage = "top" -> Return(p, err)
      [] p.stage = "first" -> IF err # NoErr THEN Return(p, err) ELSE BlinkLoop(p, 0, l)
      [] p.stage = "loop" -> IF err # NoErr THEN Return(p, err) ELSE BlinkLoop(p, p.i + 1, l)
      [] p.stage = "restore" -> Return(p, NoErr)

(***************************************************************************)
(* Light.SetState.                                                         *)
(***************************************************************************)
\* if err != nil { return err } after Bridge.Put
PutFailed(err) == err # NoErr

\* (a variant that merges the patch into the mirror when it is sent)
MirrorAfterPut_Merged(l, newState, err) == [l EXCEPT !.On = newState.On]

\* the mirror after Bridge.Put: SetState does not touch it
MirrorAfterPut(l, newState, err) == l

\* (a variant that takes the power flag from the patch when the read succeeds)
MirrorAfterGet_Merged(l, newState, got) ==
    IF got.err = NoErr THEN [got.light EXCEPT !.On = newState.On] ELSE got.light

\* *light, err = GetLightByIndex(...): the mirror is assigned the Light that
\* GetLightByIndex returns, which is Light{} when it returns an error
MirrorAfterGet(l, newState, got) == got.light

\* _, _, err := light.Bridge.Put(uri, newState)
SetStatePut(c) ==
    /\ c \in active
    /\ proc[c].pc = "put"
    /\ IF light.Bridge = NilBridge
       THEN /\ proc' = [proc EXCEPT ![c].pc = "panic"]
            /\ UNCHANGED <<lights, light>>
       ELSE \E r \in BridgePutState(lights, light.Index, MarshalLightState(proc[c].patch)) :
              LET req == Request("PUT", "state", light.Bridge, light.Index,
                                 MarshalLightState(proc[c].patch), r.err)
                  p == [proc[c] EXCEPT !.reqs = Append(@, req),
                                       !.wrote = (r.lights # lights)]
                  l == MirrorAfterPut(light, proc[c].patch, r.err)
              IN /\ lights' = r.lights
                 /\ light' = l
                 /\ proc' = [proc EXCEPT ![c] =
                        IF PutFailed(r.err) THEN AfterSetState(p, r.err, l)
                        ELSE [p EXCEPT !.pc = "get"]]
    /\ UNCHANGED <<origin, active, atDelete>>

\* *light, err = GetLightByIndex(light.Bridge, light.Index); return err
SetStateGet(c) ==
    /\ c \in active
    /\ proc[c].pc = "get"
    /\ IF light.Bridge = NilBridge
       THEN /\ proc' = [proc EXCEPT ![c].pc = "panic"]
            /\ UNCHANGED light
       ELSE \E resp \in BridgeGet(lights, light.Index) :
              LET got == GetLightByIndex(light.Bridge, light.Index, resp)
                  req == Request("GET", "light", light.Bridge, light.Index, <<>>, resp.err)
                  p == [proc[c] EXCEPT !.reqs = Append(@, req), !.resp = resp]
                  l == MirrorAfterGet(light, proc[c].patch, got)
              IN /\ light' = l
                 /\ proc' = [proc EXCEPT ![c] = AfterSetState(p, got.err, l)]
    /\ UNCHANGED <<lights, origin, active, atDelete>>

(***************************************************************************)
(* Light.SetState with callers that run at the same time on one mirror.    *)
(* Nothing orders the accesses of two callers to *light (there is no lock) *)
(* and the assignment of line 188 copies a struct of many words, so the    *)
(* request and the copy are steps of their own here, and the copy is two   *)
(* steps: the first word of the struct (State.On), then the others.  (A    *)
(* copy in more parts has these outcomes and more.)  With one caller the   *)
(* three steps cannot be told from the one step SetStateGet.               *)
(* pc: "store" (the Light is fetched, before the copy), "rest" (the first  *)
(* word is copied); result[1] is what GetLightByIndex returned.            *)
(***************************************************************************)
\* light.Bridge.GetLightByIndex(light.Index), before the assignment
SetStateFetch(c) ==
    /\ c \in active
    /\ proc[c].pc = "get"
    /\ IF light.Bridge = NilBridge
       THEN proc' = [proc EXCEPT ![c].pc = "panic"]
       ELSE \E resp \in BridgeGet(lights, light.Index) :
              LET got == GetLightByIndex(light.Bridge, light.Index, resp)
                  req == Request("GET", "light", light.Bridge, light.Index, <<>>, resp.err)
              IN proc' = [proc EXCEPT ![c] =
                        [@ EXCEPT !.reqs = Append(@, req), !.resp = resp,
                                  !.result = <<got>>, !.pc = "store"]]
    /\ UNCHANGED <<lights, light, origin, active, atDelete>>

\* *light = ...: the first word
SetStateStoreFirst(c) ==
    /\ c \in active
    /\ proc[c].pc = "store"
    /\ LET new == MirrorAfterGet(light, proc[c].patch, proc[c].result[1])
       IN light' = [light EXCEPT !.On = new.On]
    /\ proc' = [proc EXCEPT ![c].pc = "rest"]
    /\ UNCHANGED <<lights, origin, active, atDelete>>

\* *light = ...: the other words; if err != nil { return err }; return nil
SetStateStoreRest(c) ==
    /\ c \in active
    /\ proc[c].pc = "rest"
    /\ LET got == proc[c].result[1]
           new == MirrorAfterGet(light, proc[c].patch, got)
           l == [new EXCEPT !.On = light.On]
       IN /\ light' = l
          /\ proc' = [proc EXCEPT ![c] =
                    AfterSetState([proc[c] EXCEPT !.result = <<>>], got.err, l)]
    /\ UNCHANGED <<lights, origin, active, atDelete>>

(***************************************************************************)
(* The operations on a mirror that are one SetState.                       *)
(***************************************************************************)
CanCall(c) == c \in active /\ proc[c].pc = "idle" /\ light # NoLight

SetStateCall(c, newState) ==
    /\ CanCall(c)
    /\ proc' = [proc EXCEPT ![c] = EnterSetState("SetState", newState, newState)]
    /\ UNCHANGED <<lights, light, origin, active, atDelete>>

Off(c) ==
    /\ CanCall(c)
    /\ proc' = [proc EXCEPT ![c] =
            EnterSetState("Off", <<>>, LightState(FALSE, 0, NilXY, ""))]
    /\ UNCHANGED <<lights, light, origin, active, atDelete>>

On(c) ==
    /\ CanCall(c)
    /\ proc' = [proc EXCEPT ![c] =
            EnterSetState("On", <<>>, LightState(TRUE, 0, NilXY, ""))]
    /\ UNCHANGED <<lights, light, origin, active, atDelete>>

\* the power flag in the PUT of the call that c has returned from, if that
\* call was a Toggle
SentByToggle(p) ==
    IF p.op = "Toggle" /\ p.reqs # <<>> THEN p.reqs[1].body.on ELSE <<>>

\* (a variant that decides from the state of the light on the bridge)
Toggle_Live(c) ==
    /\ CanCall(c)
    /\ proc' = [proc EXCEPT ![c] =
            [(IF light.Index \in DOMAIN lights /\ lights[light.Index].state.on
              THEN EnterSetState("Toggle", <<>>, LightState(FALSE, 0, NilXY, ""))
              ELSE EnterSetState("Toggle", <<>>, LightState(TRUE, 0, NilXY, "")))
             EXCEPT !.previous = SentByToggle(proc[c])]]
    /\ UNCHANGED <<lights, light, origin, active, atDelete>>

\* if light.State.On { return light.Off() } else { return light.On() }
Toggle(c) ==
    /\ CanCall(c)
    /\ proc' = [proc EXCEPT ![c] =
            [(IF light.On
              THEN EnterSetState("Toggle", <<>>, LightState(FALSE, 0, NilXY, ""))
              ELSE EnterSetState("Toggle", <<>>, LightState(TRUE, 0, NilXY, "")))
             EXCEPT !.previous = SentByToggle(proc[c])]]
    /\ UNCHANGED <<lights, light, origin, active, atDelete>>

ColorLoop(c, activate) ==
    /\ CanCall(c)
    /\ proc' = [proc EXCEPT ![c] =
            EnterSetState("ColorLoop", activate,
                LightState(TRUE, 0, NilXY, IF activate THEN "colorloop" ELSE "none"))]
    /\ UNCHANGED <<lights, light, origin, active, atDelete>>

\* (a variant whose patch leaves the power as the mirror shows it)
SetColor_KeepsPower(c, color) ==
    /\ CanCall(c)
    /\ proc' = [proc EXCEPT ![c] =
            EnterSetState("SetColor", color, LightState(light.On, 0, color, ""))]
    /\ UNCHANGED <<lights, light, origin, active, atDelete>>

\* lightState := LightState{On: true, XY: color}; err := light.SetState(lightState)
SetColor(c, color) ==
    /\ CanCall(c)
    /\ proc' = [proc EXCEPT ![c] =
            EnterSetState("SetColor", color, LightState(TRUE, 0, color, ""))]
    /\ UNCHANGED <<lights, light, origin, active, atDelete>>

(***************************************************************************)
(* Light.Blink: the originals are captured and the first SetState(blinkMax)*)
(* is entered; BlinkLoop continues it.                                     *)
(***************************************************************************)
Blink(c, seconds) ==
    /\ CanCall(c)
    /\ proc' = [proc EXCEPT ![c] =
            [Enter("Blink", seconds) EXCEPT
                !.originalPosition = light.On, !.originalBrightness = light.Bri,
                !.seconds = seconds, !.pc = "put", !.stage = "first",
                !.patch = blinkMax]]
    /\ UNCHANGED <<lights, light, origin, active, atDelete>>

(***************************************************************************)
(* Light.SetName and Light.Delete: one request on the base resource.       *)
(***************************************************************************)
\* (a variant that writes the new name into the mirror when the PUT succeeds)
SetName_UpdatesMirror(c, name) ==
    /\ CanCall(c)
    /\ IF light.Bridge = NilBridge
       THEN /\ proc' = [proc EXCEPT ![c] = [Enter("SetName", name) EXCEPT !.pc = "panic"]]
            /\ UNCHANGED <<lights, light>>
       ELSE \E r \in BridgePutName(lights, light.Index, name) :
              /\ lights' = r.lights
              /\ light' = IF r.err = NoErr THEN [light EXCEPT !.Name = name] ELSE light
              /\ proc' = [proc EXCEPT ![c] =
                    Return([Enter("SetName", name) EXCEPT !.reqs =
                        <<Request("PUT", "light", light.Bridge, light.Index, name, r.err)>>],
                        r.err)]
    /\ UNCHANGED <<origin, active, atDelete>>

SetName(c, name) ==
    /\ CanCall(c)
    /\ IF light.Bridge = NilBridge
       THEN /\ proc' = [proc EXCEPT ![c] = [Enter("SetName", name) EXCEPT !.pc = "panic"]]
            /\ UNCHANGED lights
       ELSE \E r \in BridgePutName(lights, light.Index, name) :
              /\ lights' = r.lights
              /\ proc' = [proc EXCEPT ![c] =
                    Return([Enter("SetName", name) EXCEPT !.reqs =
                        <<Request("PUT", "light", light.Bridge, light.Index, name, r.err)>>],
                        r.err)]
    /\ UNCHANGED <<light, origin, active, atDelete>>

Delete(c) ==
    /\ CanCall(c)
    /\ IF light.Bridge = NilBridge
       THEN /\ proc' = [proc EXCEPT ![c] = [Enter("Delete", <<>>) EXCEPT !.pc = "panic"]]
            /\ UNCHANGED <<lights, atDelete>>
       ELSE \E r \in BridgeDelete(lights, light.Index) :
              /\ lights' = r.lights
              /\ atDelete' = IF r.err = NoErr /\ light.Index \in DOMAIN lights
                             THEN light ELSE atDelete
              /\ proc' = [proc EXCEPT ![c] =
                    Return([Enter("Delete", <<>>) EXCEPT !.reqs =
                        <<Request("DELETE", "light", light.Bridge, light.Index, <<>>, r.err)>>],
                        r.err)]
    /\ UNCHANGED <<light, origin, active>>

(***************************************************************************)
(* GetAllLights, given the answers resps[index] of the bridge to the GETs  *)
(* it may issue.  The state of its loop is the loop variable index, the    *)
(* slice lights, the requests issued so far and whether the loop has been  *)
(* left; ScanIteration is the loop test and one run of the loop body.      *)
(***************************************************************************)
\* (a variant that goes on to the next index after a fetch that failed)
ScanIteration_SkipsGaps(bridge, resps, st) ==
    IF st.done THEN st
    ELSE IF ~(st.index < ScanLimit) THEN [st EXCEPT !.done = TRUE]
    ELSE CHOOSE next \in
            { IF got.err # NoErr
              THEN [st EXCEPT !.reqs = Append(@, Request("GET", "light", bridge, st.index,
                                                         <<>>, resps[st.index].err)),
                              !.index = @ + 1]
              ELSE [st EXCEPT !.reqs = Append(@, Request("GET", "light", bridge, st.index,
                                                         <<>>, resps[st.index].err)),
                              !.lights = Append(@, got.light),
                              !.index = @ + 1]
              : got \in {GetLightByIndex(bridge, st.index, resps[st.index])} } : TRUE

\* (a variant whose loop test is index <= 101)
ScanIteration_OneMore(bridge, resps, st) ==
    IF st.done THEN st
    ELSE IF ~(st.index <= ScanLimit) THEN [st EXCEPT !.done = TRUE]
    ELSE CHOOSE next \in
            { IF got.err # NoErr
              THEN [st EXCEPT !.reqs = Append(@, Request("GET", "light", bridge, st.index,
                                                         <<>>, resps[st.index].err)),
                              !.done = TRUE]
              ELSE [st EXCEPT !.reqs = Append(@, Request("GET", "light", bridge, st.index,
                                                         <<>>, resps[st.index].err)),
                              !.lights = Append(@, got.light),
                              !.index = @ + 1]
              : got \in {GetLightByIndex(bridge, st.index, resps[st.index])} } : TRUE

ScanIteration(bridge, resps, st) ==
    IF st.done THEN st
    ELSE IF ~(st.index < ScanLimit) THEN [st EXCEPT !.done = TRUE]
    ELSE CHOOSE next \in
            { IF got.err # NoErr
              THEN [st EXCEPT !.reqs = Append(@, Request("GET", "light", bridge, st.index,
                                                         <<>>, resps[st.index].err)),
                              !.done = TRUE]
              ELSE [st EXCEPT !.reqs = Append(@, Request("GET", "light", bridge, st.index,
                                                         <<>>, resps[st.index].err)),
                              !.lights = Append(@, got.light),
                              !.index = @ + 1]
              : got \in {GetLightByIndex(bridge, st.index, resps[st.index])} } : TRUE

\* n times ScanIteration (by halves, each half evaluated once, to keep the
\* evaluation shallow)
RECURSIVE ScanIterations(_, _, _, _)
ScanIterations(bridge, resps, n, st) ==
    IF n = 0 THEN st
    ELSE IF n = 1 THEN ScanIteration(bridge, resps, st)
    ELSE CHOOSE out \in
            { IF half.done THEN half
              ELSE ScanIterations(bridge, resps, n - (n \div 2), half)
              : half \in {ScanIterations(bridge, resps, n \div 2, st)} } : TRUE

\* var lights []Light; for index := 1; index < 101; index++ {...}; return lights, nil
\* (the loop is left after at most ScanLimit tests)
GetAllLights(bridge, resps) ==
    CHOOSE ret \in
        { [lights |-> scan.lights, err |-> NoErr, reqs |-> scan.reqs]
          : scan \in {ScanIterations(bridge, resps, ScanLimit,
                        [index |-> 1, lights |-> <<>>, reqs |-> <<>>, done |-> FALSE])} }
        : TRUE

(***************************************************************************)
(* GetLightByName: the first light of the scan whose Name is name.         *)
(***************************************************************************)
\* strings.ToLower, for the letters of the names of the model
ToLower(str) ==
    [k \in 1..Len(str) |->
        CASE str[k] = "D" -> "d" [] str[k] = "L" -> "l" [] str[k] = "S" -> "s"
          [] OTHER -> str[k]]

\* (a variant that compares the names without regard to case)
NameMatches_IgnoreCase(lightName, name) == ToLower(lightName) = ToLower(name)

\* light.Name == name
NameMatches(lightName, name) == lightName = name

\* (a variant that goes on to the last light that matches)
FirstMatch_Last(found, name) ==
    LET hits == {k \in 1..Len(found) : NameMatches(found[k].Name, name)}
    IN IF hits = {} THEN 0 ELSE CHOOSE k \in hits : \A h \in hits : k >= h

\* the index in the slice of the first light that matches, 0 if none does
FirstMatch(found, name) ==
    LET hits == {k \in 1..Len(found) : NameMatches(found[k].Name, name)}
    IN IF hits = {} THEN 0 ELSE CHOOSE k \in hits : \A h \in hits : k <= h

GetLightByName(bridge, name, resps) ==
    CHOOSE ret \in
        { IF k # 0
          THEN [light |-> scan.lights[k], err |-> NoErr, reqs |-> scan.reqs]
          ELSE [light |-> ZeroLight, err |-> NotFoundErr, reqs |-> scan.reqs]
          : <<scan, k>> \in
              { <<sc, FirstMatch(sc.lights, name)>> : sc \in {GetAllLights(bridge, resps)} } }
        : TRUE

(***************************************************************************)
(* The answers of the bridge during one scan: the request for failAt       *)
(* fails, the one for otherAt is answered with another error body, the     *)
(* others with the light or the unavailable error (0: no such request).    *)
(***************************************************************************)
ScanFaults == { <<0, 0>>, <<1, 0>>, <<0, 3>>, <<ScanLimit - 1, 0>> }

ScanAnswers(ls, failAt, otherAt) ==
    [index \in 0..(MaxLight + 1) |->
        IF index = failAt THEN [err |-> TransportErr, body |-> <<>>]
        ELSE IF index = otherAt THEN [err |-> NoErr, body |-> OtherBody]
        ELSE [err |-> NoErr, body |-> LightBody(ls, index)]]

(***************************************************************************)
(* The calls of the discovery functions.  The caller keeps the first Light *)
(* that a fetch by index or by name returns without error as its mirror.   *)
(***************************************************************************)
CanFetch(c) == c \in active /\ proc[c].pc = "idle"

Keep(got) ==
    /\ light' = IF got.err = NoErr /\ light = NoLight THEN got.light ELSE light
    /\ origin' = IF got.err = NoErr /\ light = NoLight
                 THEN [Index |-> got.light.Index, Bridge |-> got.light.Bridge]
                 ELSE origin

GetLightByIndexCall(c, index) ==
    /\ CanFetch(c)
    /\ \E resp \in BridgeGet(lights, index) :
         LET got == GetLightByIndex(TheBridge, index, resp)
         IN /\ proc' = [proc EXCEPT ![c] =
                    [IdleProc EXCEPT !.op = "GetLightByIndex", !.arg = index,
                        !.resp = resp, !.ret = got.err,
                        !.result = <<got.light>>,
                        !.reqs = <<Request("GET", "light", TheBridge, index, <<>>,
                                           resp.err)>>]]
            /\ Keep(got)
    /\ UNCHANGED <<lights, active, atDelete>>

GetAllLightsCall(c, faults) ==
    /\ CanFetch(c)
    /\   \E got \in {GetAllLights(TheBridge, ScanAnswers(lights, faults[1], faults[2]))} :
            proc' = [proc EXCEPT ![c] =
                    [IdleProc EXCEPT !.op = "GetAllLights", !.arg = faults,
                        !.ret = got.err,
                        !.result = got.lights, !.reqs = got.reqs]]
    /\ UNCHANGED <<lights, light, origin, active, atDelete>>

GetLightByNameCall(c, name, faults) ==
    /\ CanFetch(c)
    /\   \E got \in {GetLightByName(TheBridge, name,
                                     ScanAnswers(lights, faults[1], faults[2]))} :
            /\ proc' = [proc EXCEPT ![c] =
                    [IdleProc EXCEPT !.op = "GetLightByName",
                        !.arg = <<name, faults>>,
                        !.ret = got.err,
                        !.result = <<got.light>>, !.reqs = got.reqs]]
            /\ Keep(got)
    /\ UNCHANGED <<lights, active, atDelete>>

(***************************************************************************)
(* Somebody else switches a light of the bridge on or off.                 *)
(***************************************************************************)
External(j) ==
    /\ j \in DOMAIN lights
    /\ lights' = [lights EXCEPT ![j].state.on = ~@]
    /\ UNCHANGED <<light, origin, proc, active, atDelete>>

(***************************************************************************)
(* The initial states: no mirror is held, no call has been made, and the   *)
(* bridge holds lights 1, 2 and 4, light 1 on or off and at brightness 0   *)
(* or 100.                                                                 *)
(***************************************************************************)
NameOf(index) == IF index = 1 THEN Lamp ELSE IF index = 2 THEN Desk ELSE Sofa

Holding(present, on, bri) ==
    [index \in present |->
        IF index = 1 THEN Device(on, bri, "none", <<3227, 3290>>, NameOf(index))
        ELSE Device(FALSE, 100, "none", <<3227, 3290>>, NameOf(index))]

InitLights ==
    { Holding(present, on, bri) :
        present \in { {1, 2, 4} }, on \in BOOLEAN, bri \in {0, 100} }

Patches ==
    { LightState(TRUE, 100, NilXY, ""), LightState(FALSE, BlinkMinBri, NilXY, "") }

FetchIndices == {1, 2}
Colors == {BLUE}

Init ==
    /\ lights \in InitLights
    /\ light = NoLight
    /\ origin = NoLight
    /\ proc = [c \in Callers |-> IdleProc]
    /\ active = {"c1"}
    /\ atDelete = NoLight

Next ==
    \/ \E c \in Callers, newState \in Patches : SetStateCall(c, newState)
    \/ \E c \in Callers : SetStatePut(c)
    \/ \E c \in Callers : SetStateGet(c)
    \/ \E c \in Callers : Off(c)
    \/ \E c \in Callers : On(c)
    \/ \E c \in Callers : Toggle(c)
    \/ \E c \in Callers, activate \in BOOLEAN : ColorLoop(c, activate)
    \/ \E c \in Callers, color \in Colors : SetColor(c, color)
    \/ \E c \in Callers, seconds \in 0..MaxSeconds : Blink(c, seconds)
    \/ \E c \in Callers, name \in {Desk} : SetName(c, name)
    \/ \E c \in Callers : Delete(c)
    \/ \E c \in Callers, index \in FetchIndices : GetLightByIndexCall(c, index)
    \/ \E c \in Callers : GetAllLightsCall(c, <<0, 0>>)
    \/ \E c \in Callers, name \in {Desk} : GetLightByNameCall(c, name, <<0, 0>>)
    \/ \E j \in {1} : External(j)

Spec == Init /\ [][Next]_vars

(***************************************************************************)
(* The discovery functions on their own, over more bridges: none, some,    *)
(* with a gap, without light 1, all the lights the scan can reach, and one *)
(* more.  The caller fetches, scans, looks up names, and renames or        *)
(* deletes the light of the mirror it keeps.                               *)
(***************************************************************************)
ScanPresent ==
    { {}, {1}, {1, 2}, {1, 2, 4}, {2, 3}, 1..(ScanLimit - 1), 1..MaxLight }

ScanFetchIndices == {1, 2, 3, ScanLimit}
ScanNames == {Desk, desk, Des, Sofa}

InitScan ==
    /\ lights \in { Holding(present, FALSE, 100) : present \in ScanPresent }
    /\ light = NoLight
    /\ origin = NoLight
    /\ proc = [c \in Callers |-> IdleProc]
    /\ active = {"c1"}
    /\ atDelete = NoLight

NextScan ==
    \/ \E c \in Callers, index \in ScanFetchIndices : GetLightByIndexCall(c, index)
    \/ \E c \in Callers, faults \in ScanFaults : GetAllLightsCall(c, faults)
    \/ \E c \in Callers, name \in ScanNames, faults \in ScanFaults :
            GetLightByNameCall(c, name, faults)
    \/ \E c \in Callers, name \in {Desk, Marker} : SetName(c, name)
    \/ \E c \in Callers : Delete(c)

SpecScan == InitScan /\ [][NextScan]_vars

(***************************************************************************)
(* Two callers that share the mirror of light 1 and call SetState on it    *)
(* at the same time, each with a patch of its own, while somebody else     *)
(* switches the light.                                                     *)
(***************************************************************************)
PatchOf(c) ==
    IF c = "c1" THEN LightState(TRUE, 100, NilXY, "")
    ELSE LightState(FALSE, BlinkMinBri, NilXY, "")

InitShared ==
    /\ lights = Holding({1, 2, 4}, FALSE, 100)
    /\ light = NoLight
    /\ origin = NoLight
    /\ proc = [c \in Callers |-> IdleProc]
    /\ active = Callers
    /\ atDelete = NoLight

NextShared ==
    \/ \E c \in Callers : GetLightByIndexCall(c, 1)
    \/ \E c \in Callers : SetStateCall(c, PatchOf(c))
    \/ \E c \in Callers : SetStatePut(c)
    \/ \E c \in Callers : SetStateFetch(c)
    \/ \E c \in Callers : SetStateStoreFirst(c)
    \/ \E c \in Callers : SetStateStoreRest(c)
    \/ \E j \in {1} : External(j)

SpecShared == InitShared /\ [][NextShared]_vars

(***************************************************************************)
(* Properties.                                                             *)
(***************************************************************************)
Last(seq) == seq[Len(seq)]

\* the operations that are one call of SetState
SetStateOps == {"SetState", "On", "Off", "Toggle", "ColorLoop", "SetColor"}

\* the operations that change the light through SetState
MutationOps == SetStateOps \cup {"Blink"}

\* caller c has returned from a call of one of ops
Returned(c, ops) == c \in active /\ proc[c].pc = "idle" /\ proc[c].op \in ops

\* the attributes a body carries, the zero values where it carries none
BodyAttrs(body) ==
    [On |-> IF "state" \in DOMAIN body THEN body.state.on ELSE FALSE,
     Bri |-> IF "state" \in DOMAIN body THEN body.state.bri ELSE 0,
     Effect |-> IF "state" \in DOMAIN body THEN body.state.effect ELSE "",
     XY |-> IF "state" \in DOMAIN body THEN body.state.xy ELSE <<0, 0>>,
     Name |-> IF "name" \in DOMAIN body THEN body.name ELSE <<>>]

\* the raw body carries the marker
MarkerIn(body) ==
    \/ "error" \in DOMAIN body /\ Contains(body.error.description, Marker)
    \/ "name" \in DOMAIN body /\ Contains(body.name, Marker)

\* the fetch that got the answer resp fails, and with which error
FetchFails(resp) == resp.err # NoErr \/ MarkerIn(resp.body)
FetchError(resp) == IF resp.err # NoErr THEN resp.err ELSE IndexErr

\* in this step caller c gets the answer to a request of SetState
Answered(c, method) ==
    /\ proc[c].pc \in {"put", "get"}
    /\ Len(proc'[c].reqs) = Len(proc[c].reqs) + 1
    /\ Last(proc'[c].reqs).method = method

\* C1: when the PUT of SetState returns an error, the mirror is as it was
\* (all of its fields) and the call is over with this PUT as its last
\* request (no GET follows); SetState returns that error: the operations
\* that are one SetState return it and have issued no GET at all.  (Blink
\* returns it too, unless the PUT was the one that restores the light.)
C1_PutErrorLeavesMirror ==
    [][\A c \in Callers :
        (Answered(c, "PUT") /\ Last(proc'[c].reqs).err # NoErr)
        => /\ light' = light
           /\ proc'[c].pc = "idle"
           /\ proc[c].stage # "restore" => proc'[c].ret = Last(proc'[c].reqs).err
           /\ proc[c].stage = "top"
                => \A k \in 1..Len(proc'[c].reqs) : proc'[c].reqs[k].method # "GET"]_vars

\* a SetState that failed at the PUT, the mirror not showing the patch
C1_Witness ==
    \E c \in Callers :
        /\ Returned(c, {"SetState"})
        /\ proc[c].ret = TransportErr
        /\ Len(proc[c].reqs) = 1 /\ proc[c].reqs[1].method = "PUT"
        /\ light.On # proc[c].patch.On
        /\ light.Index = origin.Index /\ light.Bridge = TheBridge

\* C2: when SetState returns no error, every attribute of the mirror is the
\* one of the body that the confirmatory GET returned, which is the state of
\* the light on the bridge at that moment when the bridge answers with the
\* light: never a value of the patch.
C2_MirrorIsConfirmedRead ==
    [][\A c \in Callers :
        (Answered(c, "GET")
            /\ \/ ~FetchFails(proc'[c].resp)
               \/ proc[c].stage = "top" /\ proc'[c].pc = "idle" /\ proc'[c].ret = NoErr)
        => /\ Attrs(light') = BodyAttrs(proc'[c].resp.body)
           /\ proc[c].stage = "top" => (proc'[c].pc = "idle" /\ proc'[c].ret = NoErr)
           /\ ("state" \in DOMAIN proc'[c].resp.body
                => /\ light.Index \in DOMAIN lights
                   /\ Attrs(light') = BodyAttrs(lights[light.Index]))]_vars

\* a successful SetState after which the mirror shows the bridge's power
\* flag, which is not the one of the patch
C2_Witness ==
    \E c \in Callers :
        /\ Returned(c, SetStateOps)
        /\ proc[c].ret = NoErr
        /\ Len(proc[c].reqs) = 2
        /\ "state" \in DOMAIN proc[c].resp.body
        /\ light.On # proc[c].patch.On
        /\ light.On = proc[c].resp.body.state.on

\* C3: the index and the Bridge reference of a mirror stay the ones assigned
\* when it was fetched (a positive index), whatever operations are called on
\* it and whether they succeed or fail.
C3_IndexAndBridgeStable ==
    light # NoLight
    => /\ origin.Index > 0
       /\ light.Index = origin.Index
       /\ light.Bridge = origin.Bridge

\* C4: once the light of the mirror has been deleted, the mirror keeps the
\* fields it had at the deletion, and every mutation called afterwards
\* returns an error.
C4_DeletedMirrorKeepsFields ==
    atDelete # NoLight
    => /\ light = atDelete
       /\ \A c \in Callers : Returned(c, MutationOps) => proc[c].ret # NoErr

\* C5: when the PUT of SetState succeeds and the confirmatory fetch fails,
\* SetState returns the fetch's error; the call is over after this GET (no
\* retry), the request before it is the PUT that succeeded, and the bridge
\* keeps the state the PUT left.  The operations that are one SetState
\* return the fetch's error after exactly one PUT and one GET.
C5_FetchErrorAfterWrite ==
    [][\A c \in Callers :
        (Answered(c, "GET") /\ FetchFails(proc'[c].resp))
        => /\ proc'[c].pc = "idle"
           /\ lights' = lights
           /\ proc[c].stage # "restore" => proc'[c].ret = FetchError(proc'[c].resp)
           /\ LET n == Len(proc'[c].reqs)
              IN /\ n >= 2
                 /\ proc'[c].reqs[n - 1].method = "PUT"
                 /\ proc'[c].reqs[n - 1].err = NoErr
                 /\ proc[c].stage = "top" => n = 2]_vars

\* a SetState that returned the error of its fetch after its PUT had changed
\* the state of the light on the bridge, which is still changed
C5_Witness ==
    \E c \in Callers :
        /\ Returned(c, SetStateOps)
        /\ proc[c].ret \in {TransportErr, IndexErr}
        /\ Len(proc[c].reqs) = 2 /\ proc[c].reqs[2].method = "GET"
        /\ proc[c].wrote
        /\ proc[c].pre.Index \in DOMAIN lights
        /\ lights[proc[c].pre.Index].state.on = proc[c].patch.On

\* C6 as claimed: after a SetState with on=true that returns no error the
\* mirror's power flag is true and its index and Bridge are the ones it had
\* before the call.
C6_OnPatchTurnsMirrorOn ==
    \A c \in Callers :
        (Returned(c, SetStateOps) /\ proc[c].patch.On /\ proc[c].ret = NoErr)
        => /\ light.On = TRUE
           /\ light.Index = proc[c].pre.Index
           /\ light.Bridge = proc[c].pre.Bridge

\* C6 as amended: after a SetState with on=true that returns no error the
\* mirror's power flag is the one of the body the confirmatory GET returned
\* (false when the body carries none), and its index and Bridge are the ones
\* it had before the call.
C6_OnPatchMirrorShowsRead ==
    \A c \in Callers :
        (Returned(c, SetStateOps) /\ proc[c].patch.On /\ proc[c].ret = NoErr)
        => /\ light.On = BodyAttrs(proc[c].resp.body).On
           /\ light.Index = proc[c].pre.Index
           /\ light.Bridge = proc[c].pre.Bridge

\* a successful SetState with on=true whose PUT changed the bridge's state
\* and after which the mirror is on
C6_Witness ==
    \E c \in Callers :
        /\ Returned(c, SetStateOps) /\ proc[c].patch.On /\ proc[c].ret = NoErr
        /\ proc[c].wrote
        /\ light.On
        /\ light.Index = 1 /\ light.Bridge = TheBridge

\* the answers of the bridge during the scan that caller c's record is of
AnswersOf(c, faults) == ScanAnswers(lights, faults[1], faults[2])

\* the first index from 1 whose fetch fails with these answers, ScanLimit if
\* none below it does
FirstFailing(resps) ==
    LET failing == {index \in 1..(ScanLimit - 1) :
                        GetLightByIndex(TheBridge, index, resps[index]).err # NoErr}
    IN IF failing = {} THEN ScanLimit
       ELSE CHOOSE k \in failing : \A h \in failing : k <= h

\* C7: GetAllLights returns exactly the mirrors of the indices 1..k-1, in
\* ascending order, k being the first index of 1..100 whose fetch fails (all
\* of 1..100 if none does); it probes no index after k, so with 1, 2 and 4
\* present and 3 absent the result is the mirrors of 1 and 2, and 4 is not
\* probed.
C7_ScanStopsAtFirstGap ==
    \A c \in Callers :
        proc[c].op = "GetAllLights"
        => LET resps == AnswersOf(c, proc[c].arg)
               k == FirstFailing(resps)
           IN /\ Len(proc[c].result) = k - 1
              /\ \A index \in 1..(k - 1) :
                    proc[c].result[index] =
                        GetLightByIndex(TheBridge, index, resps[index]).light
              /\ \A n \in 1..Len(proc[c].reqs) : proc[c].reqs[n].index <= k
              /\ (DOMAIN lights = {1, 2, 4} /\ proc[c].arg = <<0, 0>>
                    /\ ~MarkerIn(lights[1]) /\ ~MarkerIn(lights[2])
                    => /\ Len(proc[c].result) = 2
                       /\ proc[c].result[1].Index = 1 /\ proc[c].result[2].Index = 2
                       /\ \A n \in 1..Len(proc[c].reqs) : proc[c].reqs[n].index # 4)

\* a scan of the bridge that holds 1, 2 and 4, every request answered: two
\* mirrors
C7_Witness ==
    \E c \in Callers :
        /\ proc[c].op = "GetAllLights" /\ proc[c].arg = <<0, 0>>
        /\ DOMAIN lights = {1, 2, 4}
        /\ Len(proc[c].result) = 2
        /\ Len(proc[c].reqs) = 3

\* C8: GetAllLights is left after at most 101 loop tests and returns no
\* error; its requests are GETs for 1, 2, 3, ... in this order, at least
\* the one for 1 and none beyond 100; when the fetch of 1 fails, for any
\* reason, it returns the empty sequence and no error.
C8_ScanBoundedNoError ==
    /\ \A faults \in ScanFaults :
            ScanIterations(TheBridge, ScanAnswers(lights, faults[1], faults[2]), ScanLimit,
                [index |-> 1, lights |-> <<>>, reqs |-> <<>>, done |-> FALSE]).done
    /\ \A c \in Callers :
        proc[c].op = "GetAllLights"
        => /\ proc[c].pc = "idle" /\ proc[c].ret = NoErr
           /\ Len(proc[c].reqs) \in 1..100
           /\ \A n \in 1..Len(proc[c].reqs) :
                /\ proc[c].reqs[n].index = n
                /\ proc[c].reqs[n].method = "GET"
                /\ proc[c].reqs[n].bridge = TheBridge
           /\ (GetLightByIndex(TheBridge, 1, AnswersOf(c, proc[c].arg)[1]).err # NoErr
                => proc[c].result = <<>>)

\* a scan of a bridge that holds the lights 1..101, every request answered:
\* 100 mirrors, the last request is the one for 100
C8_Witness ==
    \E c \in Callers :
        /\ proc[c].op = "GetAllLights"
        /\ DOMAIN lights = 1..MaxLight
        /\ Len(proc[c].result) = 100
        /\ Last(proc[c].reqs).index = 100

\* C9: GetLightByIndex returns the "Index Error" exactly when the GET got
\* through and the raw body carries the marker; when the GET fails it
\* returns that error; in every other case it returns no error and a Light
\* with the index asked for, the bridge asked, and the attributes of the
\* body.
C9_FetchByIndex ==
    \A c \in Callers :
        proc[c].op = "GetLightByIndex"
        => LET resp == proc[c].resp
               got == proc[c].result[1]
               marker == resp.err = NoErr /\ MarkerIn(resp.body)
           IN /\ (proc[c].ret = IndexErr) <=> marker
              /\ resp.err # NoErr => proc[c].ret = resp.err
              /\ (resp.err = NoErr /\ ~marker)
                    => /\ proc[c].ret = NoErr
                       /\ got.Index = proc[c].arg
                       /\ got.Bridge = TheBridge
                       /\ Attrs(got) = BodyAttrs(resp.body)

\* a fetch of a light that the bridge holds, under the name "not available":
\* the Index Error
C9_Witness ==
    \E c \in Callers :
        /\ proc[c].op = "GetLightByIndex"
        /\ proc[c].ret = IndexErr
        /\ proc[c].arg \in DOMAIN lights
        /\ "state" \in DOMAIN proc[c].resp.body

\* C10: GetLightByName returns a Light only if it is one of the scan whose
\* name is the target, character by character, and returns the "not found"
\* error otherwise; with light 1 named Lamp and light 2 named Desk, the
\* target Desk gives the mirror of light 2 and the target desk the error.
C10_FetchByNameExact ==
    \A c \in Callers :
        proc[c].op = "GetLightByName"
        => LET name == proc[c].arg[1]
               scan == GetAllLights(TheBridge, AnswersOf(c, proc[c].arg[2])).lights
               got == proc[c].result[1]
           IN /\ proc[c].ret \in {NoErr, NotFoundErr}
              /\ proc[c].ret = NoErr
                    => /\ \E k \in 1..Len(scan) : scan[k] = got
                       /\ Len(got.Name) = Len(name)
                       /\ \A k \in 1..Len(name) : got.Name[k] = name[k]
              /\ proc[c].ret = NotFoundErr
                    => \A k \in 1..Len(scan) : scan[k].Name # name
              /\ ({1, 2} \subseteq DOMAIN lights /\ proc[c].arg[2] = <<0, 0>>
                    /\ lights[1].name = Lamp /\ lights[2].name = Desk
                    => /\ name = Desk => (proc[c].ret = NoErr /\ got.Index = 2)
                       /\ name = desk => proc[c].ret = NotFoundErr
                       /\ name = Des => proc[c].ret = NotFoundErr)

\* the lookup of desk on a bridge whose light 2 is named Desk: not found
C10_Witness ==
    \E c \in Callers :
        /\ proc[c].op = "GetLightByName"
        /\ proc[c].arg = <<desk, <<0, 0>> >>
        /\ {1, 2} \subseteq DOMAIN lights
        /\ lights[1].name = Lamp /\ lights[2].name = Desk
        /\ proc[c].ret = NotFoundErr

\* in this step caller c enters a call of op on the mirror
Entered(c, op) == proc[c].pc = "idle" /\ proc'[c].pc # "idle" /\ proc'[c].op = op

IsPut(req) == req.method = "PUT"
Puts(reqs) == SelectSeq(reqs, IsPut)

\* caller c has returned from a Blink whose loop ran to its end: the first
\* SetState and every SetState of the loop returned no error
BlinkLoopDone(c) ==
    Returned(c, {"Blink"}) /\ proc[c].i = proc[c].seconds * 2 + 1

\* the PUTs of the loop of that Blink: the ones after the first SetState's
\* and before the one that restores the light, if that one was sent
LoopPuts(p) ==
    LET puts == Puts(p.reqs)
        n == IF p.stage = "restore" THEN Len(puts) - 1 ELSE Len(puts)
    IN SubSeq(puts, 2, n)

\* C12: a Blink(N) whose round trips all succeed sends 2*N oscillation
\* patches (after the one it starts with), with on=true and with the
\* brightness 200 and 50 in turn, before the patch that restores the light.
C12_BlinkSendsTwoNPatches ==
    \A c \in Callers :
        BlinkLoopDone(c)
        => LET osc == LoopPuts(proc[c])
           IN /\ Len(osc) = 2 * proc[c].seconds
              /\ \A k \in 1..Len(osc) :
                    /\ osc[k].body.on = <<TRUE>>
                    /\ osc[k].body.bri =
                            IF k % 2 = 1 THEN <<BlinkMaxBri>> ELSE <<BlinkMinBri>>

\* the last patch that caller c's call sent is in effect: the light of the
\* mirror is on the bridge with the values of the fields the patch carried,
\* and the attributes of the mirror are the ones of that light
LastPatchInEffect(c) ==
    LET puts == Puts(proc[c].reqs)
        body == Last(puts).body
        index == proc[c].pre.Index
    IN /\ puts # <<>>
       /\ \A k \in 1..Len(proc[c].reqs) : proc[c].reqs[k].err = NoErr
       /\ index \in DOMAIN lights
       /\ lights[index].state.on = body.on[1]
       /\ body.bri # <<>> => lights[index].state.bri = body.bri[1]
       /\ Attrs(light) = BodyAttrs(lights[index])

\* C13: when Blink(N) has returned, with every round trip answered and its
\* last patch in effect, the mirror's power flag and brightness are the
\* ones it had immediately before the call, whatever they were (on or off,
\* any brightness, 0 included).
C13_BlinkRestoresMirror ==
    \A c \in Callers :
        (BlinkLoopDone(c) /\ LastPatchInEffect(c))
        => /\ light.On = proc[c].originalPosition
           /\ light.Bri = proc[c].originalBrightness

\* the patch of SetColor(color) as it is sent: on=true, the pair, nothing else
ColorBody(color) == [on |-> <<TRUE>>, bri |-> <<>>, xy |-> <<color>>, effect |-> <<>>]

\* C14 as claimed: SetColor(color) sends exactly one patch, with on=true and
\* the pair color and nothing else, and after a call that returned no error
\* the mirror's pair is color and its power flag is true.
C14_SetColorSetsMirror ==
    \A c \in Callers :
        Returned(c, {"SetColor"})
        => /\ Len(Puts(proc[c].reqs)) = 1
           /\ proc[c].reqs[1].body = ColorBody(proc[c].arg)
           /\ proc[c].ret = NoErr => (light.XY = proc[c].arg /\ light.On)

\* C14 as amended: SetColor(color) sends exactly one patch, with on=true and
\* the pair color and nothing else, and after a call that returned no error
\* the mirror's pair and power flag are the ones of the body that the
\* confirmatory GET returned (the zero pair and false when the body carries
\* no state): they are color and true when that body shows the light with
\* the patch applied, also when the mirror was off before the call.
C14_SetColorMirrorShowsRead ==
    \A c \in Callers :
        Returned(c, {"SetColor"})
        => /\ Len(Puts(proc[c].reqs)) = 1
           /\ proc[c].reqs[1].body = ColorBody(proc[c].arg)
           /\ proc[c].ret = NoErr
                => /\ light.XY = BodyAttrs(proc[c].resp.body).XY
                   /\ light.On = BodyAttrs(proc[c].resp.body).On
                   /\ ("state" \in DOMAIN proc[c].resp.body
                        /\ proc[c].resp.body.state.xy = proc[c].arg
                        /\ proc[c].resp.body.state.on)
                      => (light.XY = proc[c].arg /\ light.On)

\* a SetColor(BLUE) on a mirror that was off, whose patch the bridge has
\* applied: the mirror is on and its pair is BLUE
C14_Witness ==
    \E c \in Callers :
        /\ Returned(c, {"SetColor"}) /\ proc[c].arg = BLUE /\ proc[c].ret = NoErr
        /\ ~proc[c].pre.On
        /\ proc[c].wrote
        /\ light.XY = <<1530, 480>> /\ light.On

\* C15: when two callers have run SetState on the same mirror, at the same
\* time or one after the other, and both calls have returned no error, the
\* mirror shows the state that one of the two confirmatory GETs returned (a
\* state the bridge held at that GET), and its index and Bridge are the
\* ones assigned when it was fetched.
C15_MirrorIsSomeReadState ==
    (\A c \in Callers : Returned(c, {"SetState"}) /\ proc[c].ret = NoErr)
    => /\ light.Index = origin.Index
       /\ light.Bridge = origin.Bridge
       /\ \E c \in Callers : Attrs(light) = BodyAttrs(proc[c].resp.body)

\* C16: a SetState call on a mirror that has its Bridge issues exactly one
\* PUT, to the state resource of the mirror's index, and no other request
\* when that PUT fails; when it succeeds, exactly one GET after it, for the
\* same index and through the same Bridge; this also when the calls of two
\* callers on the mirror interleave and when the confirmatory GET of the
\* other caller has failed in between.
C16_OnePutThenOneGet ==
    \A c \in Callers :
        (proc[c].op = "SetState" /\ proc[c].pc \in {"idle", "panic"}
            /\ proc[c].pre.Bridge # NilBridge)
        => LET reqs == proc[c].reqs
           IN /\ Len(reqs) >= 1
              /\ reqs[1].method = "PUT" /\ reqs[1].resource = "state"
              /\ reqs[1].index = proc[c].pre.Index
              /\ reqs[1].bridge = proc[c].pre.Bridge
              /\ reqs[1].err # NoErr => Len(reqs) = 1
              /\ reqs[1].err = NoErr
                    => /\ Len(reqs) = 2
                       /\ reqs[2].method = "GET"
                       /\ reqs[2].index = reqs[1].index
                       /\ reqs[2].bridge = reqs[1].bridge

\* the Light with the zero value of every attribute
Blank(bridge, index) == [ZeroLight EXCEPT !.Index = index, !.Bridge = bridge]

\* C17: GetLightByIndex returns no error exactly when the GET got through
\* and the raw body is without the marker; for a body without the marker
\* that is another error shape (nothing of it decodes into a Light) it
\* returns the Light with the zero value of every attribute, the index
\* asked for and the Bridge; GetAllLights then has that Light at the place
\* of that index and goes on to the next index.
C17_OnlyMarkerFails ==
    \A c \in Callers :
        /\ proc[c].op = "GetLightByIndex"
            => LET resp == proc[c].resp
               IN /\ proc[c].ret = NoErr <=> (resp.err = NoErr /\ ~MarkerIn(resp.body))
                  /\ (resp.err = NoErr /\ resp.body = OtherBody)
                        => proc[c].result[1] = Blank(TheBridge, proc[c].arg)
        /\ proc[c].op = "GetAllLights"
            => LET k == proc[c].arg[2]
               IN (k # 0 /\ FirstFailing(AnswersOf(c, proc[c].arg)) > k)
                  => /\ Len(proc[c].result) >= k
                     /\ proc[c].result[k] = Blank(TheBridge, k)
                     /\ k + 1 < ScanLimit
                            => \E n \in 1..Len(proc[c].reqs) : proc[c].reqs[n].index = k + 1

\* a scan of the bridge that holds 1, 2 and 4 during which the GET for 3 is
\* answered with another error body: four Lights, the third with the zero
\* values and index 3, the fourth the light 4
C17_Witness ==
    \E c \in Callers :
        /\ proc[c].op = "GetAllLights" /\ proc[c].arg = <<0, 3>>
        /\ DOMAIN lights = {1, 2, 4}
        /\ Len(proc[c].result) = 4
        /\ Attrs(proc[c].result[3]) = Attrs(ZeroLight)
        /\ proc[c].result[3].Index = 3
        /\ proc[c].result[4].Index = 4

\* the indices below k whose light has the name, with these answers
NamedBelow(resps, name, k) ==
    { index \in 1..(k - 1) :
        GetLightByIndex(TheBridge, index, resps[index]).light.Name = name }

\* C18: GetLightByName looks only at the lights of the indices below the
\* first one whose fetch fails, and returns the one of the lowest index
\* among those with the name, the "not found" error if there is none: a
\* light of that name beyond the first failing index is not found although
\* the bridge holds it, and a scan cut short by a transport failure gives
\* "not found", never the transport error.
C18_NameSearchInPrefix ==
    \A c \in Callers :
        proc[c].op = "GetLightByName"
        => \E k \in {FirstFailing(AnswersOf(c, proc[c].arg[2]))} :
           \E named \in {NamedBelow(AnswersOf(c, proc[c].arg[2]), proc[c].arg[1], k)} :
           LET name == proc[c].arg[1]
               resps == AnswersOf(c, proc[c].arg[2])
               got == proc[c].result[1]
           IN /\ proc[c].ret # TransportErr
              /\ named = {} => proc[c].ret = NotFoundErr
              /\ named # {}
                    => /\ proc[c].ret = NoErr
                       /\ got.Index \in named
                       /\ \A index \in named : got.Index <= index
                       /\ got = GetLightByIndex(TheBridge, got.Index, resps[got.Index]).light
              /\ \A n \in 1..Len(proc[c].reqs) : proc[c].reqs[n].index <= k
              /\ \A index \in DOMAIN lights :
                    (index > k /\ lights[index].name = name)
                    => proc[c].ret = NotFoundErr \/ got.Index < k
              /\ (proc[c].arg[2][1] = 1) => proc[c].ret = NotFoundErr

\* the lookup of Sofa, the name of light 4, on the bridge that holds 1, 2
\* and 4, every request answered: not found
C18_Witness ==
    \E c \in Callers :
        /\ proc[c].op = "GetLightByName"
        /\ proc[c].arg = <<Sofa, <<0, 0>> >>
        /\ DOMAIN lights = {1, 2, 4}
        /\ lights[4].name = Sofa
        /\ proc[c].ret = NotFoundErr

\* in this step a SetState of caller c fails: its PUT returns an error, or
\* its confirmatory fetch does
SetStateFails(c) ==
    \/ Answered(c, "PUT") /\ Last(proc'[c].reqs).err # NoErr
    \/ Answered(c, "GET") /\ FetchFails(proc'[c].resp)

\* the error that SetState returns then
SetStateError(c) ==
    IF Last(proc'[c].reqs).method = "PUT" THEN Last(proc'[c].reqs).err
    ELSE FetchError(proc'[c].resp)

\* C19: when the first SetState of Blink or one of its loop fails, Blink
\* returns that error at once (the failed request is its last one: no
\* further patch); Blink returns an error in no other case: when the
\* SetState that restores the light fails, or when none fails, it returns
\* nil.
C19_BlinkErrors ==
    [][\A c \in Callers :
        (proc[c].op = "Blink" /\ (Answered(c, "PUT") \/ Answered(c, "GET")))
        => /\ (SetStateFails(c) /\ proc[c].stage \in {"first", "loop"})
                => /\ proc'[c].pc = "idle"
                   /\ proc'[c].ret = SetStateError(c)
                   /\ proc'[c].ret # NoErr
           /\ proc'[c].pc = "idle"
                => (proc'[c].ret # NoErr
                        <=> (SetStateFails(c) /\ proc[c].stage \in {"first", "loop"}))
           /\ (SetStateFails(c) /\ proc[c].stage = "restore")
                => (proc'[c].pc = "idle" /\ proc'[c].ret = NoErr)]_vars

\* a Blink that has returned nil although the PUT of the SetState that
\* restores the light failed
C19_Witness ==
    \E c \in Callers :
        /\ Returned(c, {"Blink"})
        /\ proc[c].stage = "restore"
        /\ Last(proc[c].reqs).method = "PUT"
        /\ Last(proc[c].reqs).err = TransportErr
        /\ proc[c].ret = NoErr

\* C20: a call of SetName or Delete is one request, a PUT respectively a
\* DELETE on the base resource of the mirror's index through the mirror's
\* Bridge, and no GET; it returns the error of that request and leaves
\* every field of the mirror as it was, whether the request succeeds or
\* fails (so the mirror keeps the old name after a SetName that succeeded);
\* the mirror shows the name the bridge holds only once the confirmatory
\* GET of a later SetState has returned it.
C20_AdminLeavesMirror ==
    [][\A c \in Callers :
        /\ (proc[c].pc = "idle" /\ proc'[c] # proc[c] /\ proc'[c].pc = "idle"
                /\ proc'[c].op \in {"SetName", "Delete"})
            => /\ light' = light
               /\ Len(proc'[c].reqs) = 1
               /\ proc'[c].reqs[1].method = IF proc'[c].op = "SetName" THEN "PUT" ELSE "DELETE"
               /\ proc'[c].reqs[1].resource = "light"
               /\ proc'[c].reqs[1].index = light.Index
               /\ proc'[c].reqs[1].bridge = light.Bridge
               /\ proc'[c].ret = proc'[c].reqs[1].err
        /\ (light # NoLight /\ light'.Name # light.Name)
            => \E d \in Callers :
                    /\ Answered(d, "GET")
                    /\ proc[d].op \in MutationOps
                    /\ light'.Name = BodyAttrs(proc'[d].resp.body).Name
                       \/ FetchFails(proc'[d].resp)]_vars

\* a SetName(Desk) that succeeded on the mirror of the light named Lamp:
\* the bridge holds the new name, the mirror the old one
C20_Witness ==
    \E c \in Callers :
        /\ Returned(c, {"SetName"}) /\ proc[c].arg = Desk /\ proc[c].ret = NoErr
        /\ light.Index \in DOMAIN lights
        /\ lights[light.Index].name = Desk
        /\ light.Name = Lamp

====
